---- MODULE Spec2Model ----
(***************************************************************************)
(* A model of the beancount importers of this repository: the categorizer  *)
(* resolution of importers/mixins.py, the transaction assembly and the     *)
(* class-level configuration of importers/bank_account.py, and the merge   *)
(* of importers/categorizers.py.                                           *)
(***************************************************************************)
EXTENDS Integers, Sequences, FiniteSets, TLC

\* ---------------------------------------------------------------- bounds
MaxCategorizers == 3   \* longest categorizers list passed to one constructor
MaxRows == 2           \* most rows in one imported file
MaxImporters == 2      \* most importer instances constructed in one run

\* ---------------------------------------------------------------- values
\* Python's None.
None == [kind |-> "None"]

\* A bare string returned by a categorizer.
Str(s) == [kind |-> "str", value |-> s]

\* The str a row's description is, kept as its words.
Text(words) == [kind |-> "str", words |-> words]

\* A value that is neither None, a str nor a CategorizerResult (an int).
Other(v) == [kind |-> "int", value |-> v]

\* CategorizerResult = namedtuple(..., defaults=[None, None, set(), None])
CategorizerResult(account, payee, narration, tagset, flag) ==
    [kind |-> "CategorizerResult", account |-> account, payee |-> payee,
     narration |-> narration, tags |-> tagset, flag |-> flag]

\* CategorizerResult(account=a): the other four fields take their defaults.
CategorizerResultOf(account) == CategorizerResult(account, None, None, {}, None)

\* Python truthiness of a field that holds None or a str ("x or y").
Truthy(v) == v # None /\ v # Str("")

FLAG_WARNING == Str("!")
FLAG_OKAY == Str("*")

\* beancount's account.is_valid: a root type, then capitalised components.
ValidAccounts ==
    {"Assets:Checking", "Expenses:Dining", "Expenses:Shopping"}

IsValidAccount(a) == a.kind = "str" /\ a.value \in ValidAccounts

\* ------------------------------------------------------------------ rows
\* A row has the fields RowBase requires; the description is its words,
\* lower-cased (the categorizers search it with re.IGNORECASE).
RowFieldNames == {"amount", "description", "date"}

RowSet ==
    {[amount |-> -450, description |-> <<"coffee", "shop">>, date |-> 2],
     [amount |-> 1200, description |-> <<"book", "shop">>, date |-> 1]}

Files == UNION {[1..n -> RowSet] : n \in 0..MaxRows}

\* re.search(pattern, text, re.IGNORECASE) for a literal one-word pattern.
Search(pattern, text) == \E k \in 1..Len(text) : text[k] = pattern

\* ----------------------------------------------------------- categorizers
\* A categorizer made by C(pattern, account, field_name, **kwargs), or a
\* callable of the same shape written by hand (whose result may be a bare
\* string or anything else).
Categorizer(pattern, field, out) ==
    [pattern |-> pattern, field |-> field, out |-> out]

Raise(type, message) == [kind |-> "raise", type |-> type, message |-> message]

\* C.f: the row must have the field; the result when the pattern is found.
Call(c, row) ==
    IF c.field \notin RowFieldNames
    THEN Raise("AssertionError", "Row used for categorizer must have a field")
    ELSE IF Search(c.pattern, row[c.field]) THEN c.out ELSE None

cDining == Categorizer("coffee", "description", Str("Expenses:Dining"))
cShop ==
    Categorizer("shop", "description",
                CategorizerResult(Str("Expenses:Shopping"), Str("Shop"),
                                  Str("shopping trip"), {"errands"}, Str("?")))
cBad == Categorizer("shop", "description", Str("shopping"))
cOdd == Categorizer("coffee", "description", Other(42))
cNoField == Categorizer("coffee", "memo", Str("Expenses:Dining"))
cBlank ==
    Categorizer("book", "description",
                CategorizerResult(Str("Expenses:Dining"), Str("Cafe"), Str(""),
                                  {}, Str("")))

Pool == {cDining, cShop, cBad, cOdd, cNoField, cBlank}
SmallPool == {cDining, cShop}

ListsOver(S, n) == UNION {[1..k -> S] : k \in 0..n}

\* The lists that name no categorizer twice.
DistinctListsOver(S, n) ==
    {l \in ListsOver(S, n) : \A i, j \in 1..Len(l) : l[i] = l[j] => i = j}

\* -------------------------------------------------------------- importers
\* One importer instance: what __init__ stores on the instance. passed and
\* passed_tags record the constructor's arguments (history, not read by the
\* program).
Instance(account, currency, invert, cats, tagset) ==
    [account |-> account, currency |-> currency, invert_amounts |-> invert,
     passed |-> cats, passed_tags |-> tagset]

\* BankAccountBase.get_amount
get_amount(imp, row) ==
    IF imp.invert_amounts
    THEN [number |-> -row.amount, currency |-> imp.currency]
    ELSE [number |-> row.amount, currency |-> imp.currency]

\* -Amount
Neg(amount) == [number |-> -amount.number, currency |-> amount.currency]

Posting(account, units) ==
    [account |-> account, units |-> units, cost |-> None, price |-> None,
     flag |-> None, meta |-> <<>>]

\* ------------------------------------------------------------- resolver
\* postings = [Posting(self.account, self.get_amount(row), ...)]
PrimaryPosting_RawAmount(imp, row) ==
    Posting(imp.account, [number |-> row.amount, currency |-> imp.currency])

PrimaryPosting(imp, row) == Posting(imp.account, get_amount(imp, row))

\* Posting(result.account, -self.get_amount(row), ...)
OffsetPosting_NotNegated(imp, row, result) ==
    Posting(result.account, get_amount(imp, row))

OffsetPosting(imp, row, result) ==
    Posting(result.account, Neg(get_amount(imp, row)))

\* if not isinstance(result, CategorizerResult):
\*     result = CategorizerResult(account=result)
Normalize_AlsoNarration(result) ==
    IF result.kind = "CategorizerResult" THEN result
    ELSE CategorizerResult(result, None, result, {}, None)

Normalize(result) ==
    IF result.kind = "CategorizerResult" THEN result
    ELSE CategorizerResultOf(result)

\* assert account.is_valid(result.account): is_valid matches a regular
\* expression against its argument, which raises TypeError unless it is a str.
AccountAssertion_Skipped(result) == "ok"

AccountAssertion(result) ==
    IF result.account.kind # "str" THEN "TypeError"
    ELSE IF IsValidAccount(result.account) THEN "ok"
    ELSE "AssertionError"

\* final_result._replace(flag=flags.FLAG_WARNING)
FlagAmbiguous_KeepsOwnFlag(final) ==
    IF final.flag = None THEN [final EXCEPT !.flag = FLAG_WARNING] ELSE final

FlagAmbiguous(final) == [final EXCEPT !.flag = FLAG_WARNING]

\* final_result = None, before the loop
InitialFinalResult_Dummy(imp) == CategorizerResultOf(imp.account)

InitialFinalResult(imp) == None

\* The local state of get_categorized_postings as its loop starts.
Locals(imp, row) ==
    [postings |-> <<PrimaryPosting(imp, row)>>,
     final_result |-> InitialFinalResult(imp),
     status |-> "continue"]

\* One iteration of "for result in [...]": the new local state. status is
\* "continue", "break", or the type of the error raised.
LoopBody_LastMatchWins(imp, row, L, result) ==
    IF result = None THEN L
    ELSE LET r == Normalize(result)
             check == AccountAssertion(r)
         IN IF check # "ok" THEN [L EXCEPT !.status = check]
            ELSE [postings |-> Append(L.postings, OffsetPosting(imp, row, r)),
                  final_result |-> r,
                  status |-> "continue"]

LoopBody_ValidatesEveryMatch(imp, row, L, result) ==
    IF result = None THEN L
    ELSE LET r == Normalize(result)
             check == AccountAssertion(r)
         IN IF check # "ok" THEN [L EXCEPT !.status = check]
            ELSE IF L.final_result # None
            THEN [L EXCEPT !.final_result = FlagAmbiguous(@), !.status = "break"]
            ELSE [postings |-> Append(L.postings, OffsetPosting(imp, row, r)),
                  final_result |-> r,
                  status |-> "continue"]

LoopBody(imp, row, L, result) ==
    IF result = None THEN L
    ELSE IF L.final_result # None
    THEN [L EXCEPT !.final_result = FlagAmbiguous(@), !.status = "break"]
    ELSE LET r == Normalize(result)
             check == AccountAssertion(r)
         IN IF check # "ok" THEN [L EXCEPT !.status = check]
            ELSE [postings |-> Append(L.postings, OffsetPosting(imp, row, r)),
                  final_result |-> r,
                  status |-> "continue"]

\* [c(row) for c in self.categorizers]: every categorizer is called before
\* the loop looks at the first result; the first error raised ends the call.
Results(cats, row) == [k \in 1..Len(cats) |-> Call(cats[k], row)]

FirstRaise_Lazy(results) ==
    LET reached(k) ==
            Cardinality({j \in 1..(k - 1) : results[j] # None}) < 2
    IN IF \E k \in 1..Len(results) : results[k].kind = "raise" /\ reached(k)
       THEN results[CHOOSE k \in 1..Len(results) :
                       /\ results[k].kind = "raise" /\ reached(k)
                       /\ \A j \in 1..(k - 1) : results[j].kind # "raise"]
       ELSE None

FirstRaise(results) ==
    IF \E k \in 1..Len(results) : results[k].kind = "raise"
    THEN results[CHOOSE k \in 1..Len(results) :
                    /\ results[k].kind = "raise"
                    /\ \A j \in 1..(k - 1) : results[j].kind # "raise"]
    ELSE None

RECURSIVE RunLoop(_, _, _, _, _)
RunLoop(imp, row, L, results, k) ==
    IF k > Len(results) \/ L.status # "continue" THEN L
    ELSE RunLoop(imp, row, LoopBody(imp, row, L, results[k]), results, k + 1)

\* CategorizerMixin.get_categorized_postings as a function of the importer,
\* the class-level categorizers list and the row: what it returns or raises.
get_categorized_postings(imp, cats, row) ==
    LET results == Results(cats, row)
        raised == FirstRaise(results)
    IN IF raised # None
       THEN [outcome |-> "raise", type |-> raised.type]
       ELSE LET L == RunLoop(imp, row, Locals(imp, row), results, 1)
            IN IF L.status \in {"continue", "break"}
               THEN [outcome |-> "return", postings |-> L.postings,
                     final_result |-> L.final_result]
               ELSE [outcome |-> "raise", type |-> L.status]

\* ------------------------------------------------------ Ally get_postings
\* Importer.get_amount of the Ally importer: it has no invert_amounts.
ally_get_amount(imp, row) == [number |-> row.amount, currency |-> imp.currency]

\* assert beancount_account.is_valid(account_name)
assert_account_is_valid(account_name) ==
    IF account_name.kind # "str" THEN "TypeError"
    ELSE IF IsValidAccount(account_name) THEN "ok"
    ELSE "AssertionError"

AllyLoopBody_ContinueOnly(imp, row, L, result) ==
    IF result = None \/ L.final_result # None THEN L
    ELSE LET r == IF result.kind = "CategorizerResult" THEN result
                  ELSE CategorizerResult(result, None, None, {}, None)
             check == assert_account_is_valid(r.account)
         IN IF check # "ok" THEN [L EXCEPT !.status = check]
            ELSE [postings |->
                      Append(L.postings,
                             Posting(r.account, Neg(ally_get_amount(imp, row)))),
                  final_result |-> r,
                  status |-> "continue"]

\* One iteration of the loop of the Ally importer's get_postings.
AllyLoopBody(imp, row, L, result) ==
    IF result = None THEN L
    ELSE IF L.final_result # None
    THEN [L EXCEPT !.final_result = [@ EXCEPT !.flag = FLAG_WARNING]]
    ELSE LET r == IF result.kind = "CategorizerResult" THEN result
                  ELSE CategorizerResult(result, None, None, {}, None)
             check == assert_account_is_valid(r.account)
         IN IF check # "ok" THEN [L EXCEPT !.status = check]
            ELSE [postings |->
                      Append(L.postings,
                             Posting(r.account, Neg(ally_get_amount(imp, row)))),
                  final_result |-> r,
                  status |-> "continue"]

RECURSIVE AllyRunLoop(_, _, _, _, _)
AllyRunLoop(imp, row, L, rs, k) ==
    IF k > Len(rs) \/ L.status # "continue" THEN L
    ELSE AllyRunLoop(imp, row, AllyLoopBody(imp, row, L, rs[k]), rs, k + 1)

\* The Ally importer's get_postings, from the list of its categorizers'
\* results on: what it returns or raises.
get_postings(imp, row, rs) ==
    LET L == AllyRunLoop(imp, row,
                         [postings |-> <<Posting(imp.account, ally_get_amount(imp, row))>>,
                          final_result |-> None,
                          status |-> "continue"],
                         rs, 1)
    IN IF L.status = "continue"
       THEN [outcome |-> "return", postings |-> L.postings,
             final_result |-> L.final_result]
       ELSE [outcome |-> "raise", type |-> L.status]

\* --------------------------------------------------------- get_transaction
Transaction(meta, date, flag, payee, narration, tagset, links, postings) ==
    [meta |-> meta, date |-> date, flag |-> flag, payee |-> payee,
     narration |-> narration, tags |-> tagset, links |-> links,
     postings |-> postings]

\* if len(postings) != 2: flag = flags.FLAG_WARNING
\* else: flag = categorizer_result.flag or flags.FLAG_OKAY
TransactionFlag_OnlyResultFlag(postings, categorizer_result) ==
    IF Truthy(categorizer_result.flag) THEN categorizer_result.flag
    ELSE FLAG_OKAY

TransactionFlag(postings, categorizer_result) ==
    IF Len(postings) # 2 THEN FLAG_WARNING
    ELSE IF Truthy(categorizer_result.flag) THEN categorizer_result.flag
         ELSE FLAG_OKAY

AssembleTransaction_KeepsEmptyNarration(imp, class_tags, row, file_name, row_number, postings, result) ==
    LET categorizer_result ==
            IF result = None THEN CategorizerResultOf(imp.account) ELSE result
        flag == TransactionFlag(postings, categorizer_result)
    IN Transaction(
           [filename |-> file_name, lineno |-> row_number],
           row.date,
           flag,
           categorizer_result.payee,
           IF categorizer_result.narration # None
           THEN categorizer_result.narration ELSE Text(row.description),
           class_tags \cup categorizer_result.tags,
           {},
           postings)

\* BankAccountBase.get_transaction, from the point where the resolver has
\* returned (postings, categorizer_result); class_tags is self.tags.
AssembleTransaction(imp, class_tags, row, file_name, row_number, postings, result) ==
    LET categorizer_result ==
            IF result = None THEN CategorizerResultOf(imp.account) ELSE result
        flag == TransactionFlag(postings, categorizer_result)
    IN Transaction(
           [filename |-> file_name, lineno |-> row_number],
           row.date,
           flag,
           categorizer_result.payee,
           IF Truthy(categorizer_result.narration)
           THEN categorizer_result.narration ELSE Text(row.description),
           class_tags \cup categorizer_result.tags,
           {},
           postings)

\* self.tags after get_transaction: "self.tags | categorizer_result.tags"
\* builds a new set and leaves self.tags as it was.
TagsAfterTransaction_Updated(class_tags, result) ==
    IF result = None THEN class_tags ELSE class_tags \cup result.tags

TagsAfterTransaction(class_tags, result) == class_tags

\* get_transaction as a function: the transaction, or the error raised.
get_transaction(imp, cats, class_tags, row, file_name, row_number) ==
    LET got == get_categorized_postings(imp, cats, row)
    IN IF got.outcome = "raise" THEN got
       ELSE [outcome |-> "return",
             txn |-> AssembleTransaction(imp, class_tags, row, file_name,
                                         row_number, got.postings,
                                         got.final_result)]

RECURSIVE InsertByDate_BeforeEqualDates(_, _)
InsertByDate_BeforeEqualDates(sorted, txn) ==
    IF sorted = <<>> THEN <<txn>>
    ELSE IF sorted[Len(sorted)].date < txn.date THEN Append(sorted, txn)
    ELSE Append(InsertByDate_BeforeEqualDates(
                    SubSeq(sorted, 1, Len(sorted) - 1), txn),
                sorted[Len(sorted)])

\* transactions.sort(key=lambda txn: txn.date): list.sort is stable.
RECURSIVE InsertByDate(_, _)
InsertByDate(sorted, txn) ==
    IF sorted = <<>> THEN <<txn>>
    ELSE IF sorted[Len(sorted)].date <= txn.date THEN Append(sorted, txn)
    ELSE Append(InsertByDate(SubSeq(sorted, 1, Len(sorted) - 1), txn),
                sorted[Len(sorted)])

RECURSIVE SortByDate(_)
SortByDate(txns) ==
    IF txns = <<>> THEN <<>>
    ELSE InsertByDate(SortByDate(SubSeq(txns, 1, Len(txns) - 1)),
                      txns[Len(txns)])

\* ------------------------------------------------------------------ merge
\* CategorizerResult._fields, in order.
Fields == <<"account", "payee", "narration", "tags", "flag">>

\* mergeable_fields = {'tags': lambda l, r: l.update(r)}
MergeableFields == {"tags"}

\* mergeable_fields[field](left, right): the lambda is handed the two
\* namedtuples, and a namedtuple has no attribute "update".
CallMergeable(field, left, right) ==
    Raise("AttributeError", "'CategorizerResult' object has no attribute 'update'")

\* left._replace(**replacements)
Replace(left, replacements) ==
    [f \in DOMAIN left |->
        IF f \in DOMAIN replacements THEN replacements[f] ELSE left[f]]

\* The loop of merge_categorizer_results from field number i on.
RECURSIVE MergeFrom(_, _, _, _)
MergeFrom(left, right, i, replacements) ==
    IF i > Len(Fields)
    THEN [outcome |-> "return", value |-> Replace(left, replacements)]
    ELSE LET field == Fields[i] IN
         IF field \in MergeableFields
         THEN LET merged == CallMergeable(field, left, right) IN
              IF merged.kind = "raise"
              THEN [outcome |-> "raise", type |-> merged.type]
              \* left[i] = ...: a tuple does not support item assignment
              ELSE [outcome |-> "raise", type |-> "TypeError"]
         ELSE IF ~(left[field] = None \/ right[field] = None
                   \/ left[field] = right[field])
         THEN [outcome |-> "raise", type |-> "AssertionError", field |-> field]
         ELSE MergeFrom(left, right, i + 1,
                        IF left[field] = None
                        THEN [f \in DOMAIN replacements \cup {field} |->
                                 IF f = field THEN right[field]
                                 ELSE replacements[f]]
                        ELSE replacements)

\* merge_categorizer_results(left, right), also CategorizerResult.merge
merge_categorizer_results(left, right) == MergeFrom(left, right, 1, <<>>)

\* The results merge is tried on.
MergeInputs ==
    {CategorizerResult(a, p, n, t, f) :
        a \in {None, Str("Expenses:Dining"), Str("Expenses:Shopping")},
        p \in {None, Str("Shop"), Str("Cafe")},
        n \in {None, Str("shopping trip")},
        t \in {{}, {"errands"}},
        f \in {None, Str("!"), Str("?")}}

\* ------------------------------------------------------------ price cache
\* Strings the cache key is built from are sequences of characters.
GLOBAL_QUOTE == <<"G", "L", "O", "B", "A", "L", "_", "Q", "U", "O", "T", "E">>
FX_DAILY == <<"F", "X", "_", "D", "A", "I", "L", "Y">>
Functions == {GLOBAL_QUOTE, FX_DAILY}
Tickers == {<<"A", "/", "B">>, <<"A", "_", "B">>}

\* The characters '[^A-Za-z0-9_.-]' does not match.
ValidChars ==
    {"A", "B", "C", "D", "E", "F", "G", "H", "I", "J", "K", "L", "M",
     "N", "O", "P", "Q", "R", "S", "T", "U", "V", "W", "X", "Y", "Z",
     "a", "b", "c", "d", "e", "f", "g", "h", "i", "j", "k", "l", "m",
     "n", "o", "p", "q", "r", "s", "t", "u", "v", "w", "x", "y", "z",
     "0", "1", "2", "3", "4", "5", "6", "7", "8", "9", "_", ".", "-"}

\* re.sub(invalid_chars, repl, string)
Sub(repl, string) ==
    [i \in 1..Len(string) |-> IF string[i] \in ValidChars THEN string[i] ELSE repl]

\* 'alphavantage-{}-{}'.format(...), inside the one temp directory.
FilePath(function, ticker) ==
    <<"alphavantage-">> \o Sub("_", function) \o <<"-">> \o Sub("_", ticker)

FilePaths == {FilePath(f, t) : f \in Functions, t \in Tickers}

\* A shelf is a dictionary; a new file is an empty one.
EmptyDb == [k \in {} |-> None]
Get(db, key, default) == IF key \in DOMAIN db THEN db[key] ELSE default
Set(db, key, value) ==
    [k \in DOMAIN db \cup {key} |-> IF k = key THEN value ELSE db[k]]

\* The (3600 * 24) added to now().
TimeToLive == 3600 * 24

IsExpired_Inclusive(db, t) == Get(db, "expiry", -1) <= t

\* db.get('expiry', -1) < now()
IsExpired(db, t) == Get(db, "expiry", -1) < t

\* self.direct_request(function, ticker).json(): what the service answers to
\* this request at this time.
Response(function, ticker, t) ==
    [kind |-> "Response", function |-> function, ticker |-> ticker, fetched |-> t]

\* ------------------------------------------------------- historical price
walk_back_days == 14

\* SourcePrice(close of that day, that day, currency)
SourcePrice(day) == [kind |-> "SourcePrice", date |-> day]

\* ------------------------------------------------------------------ state
VARIABLES
    categorizers,   \* CategorizerMixin.categorizers, the class attribute
    tags,           \* BankAccountBase.tags, the class attribute
    importers,      \* the importer instances constructed so far
    pc,             \* where the running extract call is
    self,           \* the instance extract runs on (an index of importers)
    file,           \* the rows of the file being extracted
    row_number,     \* the row get_transaction is working on
    results,        \* [c(row) for c in self.categorizers]
    loop_i,         \* the index of the loop in results
    locals,         \* postings, final_result of get_categorized_postings
    transactions,   \* the list extract builds and returns
    error,          \* the type of the error that ended the call
    prev,           \* history: the last (instance, row, output) resolved
    merge_left, merge_right, merge_out,  \* a call of merge_categorizer_results
    shelf,          \* the shelve files of the temp directory, by file path
    clock,          \* what now() returns, in seconds
    price_pc,       \* where the running cached_request call is
    price_call,     \* its arguments, and the shelf and clock it started with
    price_ret,      \* the value the last cached_request call returned
    hist_pc,        \* where the running get_historical_price call is
    hist_series,    \* the dates of the daily series of the response
    hist_time,      \* the day get_historical_price was asked for
    hist_date,      \* the day the loop is looking at
    walk_back,      \* the loop's counter
    hist_ret        \* the day whose close the call returned, or None

class_vars == <<categorizers, tags, importers>>
call_vars == <<pc, self, file, row_number, results, loop_i, locals,
               transactions, error>>
merge_vars == <<merge_left, merge_right, merge_out>>
cache_vars == <<shelf, clock, price_pc, price_call, price_ret>>
hist_vars == <<hist_pc, hist_series, hist_time, hist_date, walk_back, hist_ret>>
price_vars == <<cache_vars, hist_vars>>
vars == <<class_vars, call_vars, prev, merge_vars, price_vars>>

NoLocals == [postings |-> <<>>, final_result |-> None, status |-> "none"]

\* No extract call is running.
CallIdle ==
    /\ pc = "idle" /\ self = 0 /\ file = <<>> /\ row_number = 0
    /\ results = <<>> /\ loop_i = 0 /\ locals = NoLocals
    /\ transactions = <<>> /\ error = "none"

\* The class attributes as the class statements leave them.
ClassFresh == categorizers = <<>> /\ tags = {} /\ importers = <<>>

MergeIdle == merge_left = None /\ merge_right = None /\ merge_out = None

NoCall == [function |-> <<>>, ticker |-> <<>>]

\* No shelf has been written, no cached_request call is running.
CacheIdle ==
    /\ shelf = [p \in FilePaths |-> EmptyDb]
    /\ clock = 0
    /\ price_pc = "idle" /\ price_call = NoCall /\ price_ret = None

HistIdle ==
    /\ hist_pc = "idle" /\ hist_series = {} /\ hist_time = 0
    /\ hist_date = 0 /\ walk_back = 0 /\ hist_ret = None

PriceIdle == CacheIdle /\ HistIdle

\* ------------------------------------------------------------ construction
\* self.categorizers.extend(categorizers): self.categorizers is the class's
\* list, no instance ever assigns the attribute.
ExtendCategorizers(class_list, cats) == class_list \o cats

\* self.tags.update(tags): likewise the class's set.
UpdateTags(class_tags, tagset) == class_tags \cup tagset

ImporterAccounts == {Str("Assets:Checking")}
ImporterTags == {{}, {"imported"}}

\* BankAccountBase.__init__ then CategorizerMixin.__init__, starting from
\* the class attributes (cl, tg) and the instances so far (imps).
Constructed(cl, tg, imps, account, invert, cats, tagset) ==
    /\ IsValidAccount(account)
    /\ categorizers' = ExtendCategorizers(cl, cats)
    /\ tags' = UpdateTags(tg, tagset)
    /\ importers' = Append(imps, Instance(account, Str("USD"), invert, cats, tagset))

Construct ==
    /\ pc = "idle"
    /\ Len(importers) < MaxImporters
    /\ \E account \in ImporterAccounts, invert \in BOOLEAN,
          cats \in ListsOver(SmallPool, MaxCategorizers - Len(categorizers)),
          tagset \in ImporterTags :
            Constructed(categorizers, tags, importers, account, invert, cats, tagset)
    /\ UNCHANGED <<call_vars, prev, merge_vars, price_vars>>

\* ----------------------------------------------------------------- extract
Imp == importers[self]
Row == file[row_number]

\* extract(file): transactions = []
StartExtract ==
    /\ pc = "idle"
    /\ \E s \in 1..Len(importers), f \in Files :
          /\ self' = s
          /\ file' = f
    /\ pc' = "rows"
    /\ row_number' = 0
    /\ transactions' = <<>>
    /\ UNCHANGED <<class_vars, results, loop_i, locals, error, prev, merge_vars, price_vars>>

\* An error leaves extract: nothing is returned.
Raised(type) ==
    /\ pc' = "raised"
    /\ error' = type
    /\ locals' = NoLocals
    /\ transactions' = <<>>

\* The next row: get_transaction calls get_categorized_postings, which builds
\* the primary posting and calls every categorizer.
BeginRow ==
    /\ pc = "rows"
    /\ row_number < Len(file)
    /\ row_number' = row_number + 1
    /\ LET row == file[row_number + 1]
           rs == Results(categorizers, row)
           raised == FirstRaise(rs)
       IN IF raised # None
          THEN /\ Raised(raised.type)
               /\ results' = <<>>
               /\ loop_i' = 0
          ELSE /\ results' = rs
               /\ loop_i' = 1
               /\ locals' = Locals(Imp, row)
               /\ pc' = IF rs = <<>> THEN "returned" ELSE "loop"
               /\ UNCHANGED <<transactions, error>>
    /\ UNCHANGED <<class_vars, self, file, prev, merge_vars, price_vars>>

\* One iteration of the loop over the results.
LoopStep ==
    /\ pc = "loop"
    /\ LET L == LoopBody(Imp, Row, locals, results[loop_i])
       IN IF L.status \in {"continue", "break"}
          THEN /\ locals' = L
               /\ pc' = IF L.status = "break" \/ loop_i = Len(results)
                        THEN "returned" ELSE "loop"
               /\ UNCHANGED <<transactions, error>>
          ELSE Raised(L.status)
    /\ loop_i' = loop_i + 1
    /\ UNCHANGED <<class_vars, self, file, row_number, results, prev, merge_vars, price_vars>>

\* get_categorized_postings has returned (postings, final_result):
\* get_transaction assembles the transaction and extract appends it.
FinishRow ==
    /\ pc = "returned"
    /\ transactions' =
           Append(transactions,
                  AssembleTransaction(Imp, tags, Row, "file.csv", row_number,
                                      locals.postings, locals.final_result))
    /\ prev' = [self |-> self, row |-> Row, postings |-> locals.postings,
                final_result |-> locals.final_result]
    /\ tags' = TagsAfterTransaction(tags, locals.final_result)
    /\ pc' = "rows"
    /\ UNCHANGED <<categorizers, importers, self, file, row_number, results,
                   loop_i, locals, error, merge_vars, price_vars>>

\* transactions.sort(key=lambda txn: txn.date); return transactions
FinishExtract ==
    /\ pc = "rows"
    /\ row_number = Len(file)
    /\ transactions' = SortByDate(transactions)
    /\ pc' = "done"
    /\ UNCHANGED <<class_vars, self, file, row_number, results, loop_i, locals,
                   error, prev, merge_vars, price_vars>>

\* The call is over; the next one starts with fresh locals.
Reset ==
    /\ pc \in {"done", "raised"}
    /\ pc' = "idle" /\ self' = 0 /\ file' = <<>> /\ row_number' = 0
    /\ results' = <<>> /\ loop_i' = 0 /\ locals' = NoLocals
    /\ transactions' = <<>> /\ error' = "none"
    /\ UNCHANGED <<class_vars, prev, merge_vars, price_vars>>

NoPrev == [self |-> 0]

\* ---------------------------------------------------------- specifications
\* One importer, constructed with any list of distinct categorizers, extracts
\* one file.
Init ==
    /\ \E account \in ImporterAccounts, invert \in BOOLEAN,
          cats \in DistinctListsOver(Pool, MaxCategorizers),
          tagset \in ImporterTags :
          /\ IsValidAccount(account)
          /\ categorizers = ExtendCategorizers(<<>>, cats)
          /\ tags = UpdateTags({}, tagset)
          /\ importers = <<Instance(account, Str("USD"), invert, cats, tagset)>>
    /\ CallIdle
    /\ prev = NoPrev
    /\ MergeIdle
    /\ PriceIdle

Next == StartExtract \/ BeginRow \/ LoopStep \/ FinishRow \/ FinishExtract

Spec == Init /\ [][Next]_vars

\* Importers are constructed and extract files in any order.
SharedInit == ClassFresh /\ CallIdle /\ prev = NoPrev /\ MergeIdle /\ PriceIdle

SharedNext ==
    \/ Construct \/ StartExtract \/ BeginRow \/ LoopStep \/ FinishRow
    \/ FinishExtract \/ Reset

SharedSpec == SharedInit /\ [][SharedNext]_vars

\* merge_categorizer_results is called on any two results.
MergePick ==
    /\ merge_left = None
    /\ \E l \in MergeInputs, r \in MergeInputs :
          /\ merge_left' = l
          /\ merge_right' = r
    /\ UNCHANGED <<class_vars, call_vars, prev, merge_out, price_vars>>

MergeCall ==
    /\ merge_left # None
    /\ merge_out = None
    /\ merge_out' = merge_categorizer_results(merge_left, merge_right)
    /\ UNCHANGED <<class_vars, call_vars, prev, merge_left, merge_right, price_vars>>

MergeInit == ClassFresh /\ CallIdle /\ prev = NoPrev /\ MergeIdle /\ PriceIdle

MergeNext == MergePick \/ MergeCall

MergeSpec == MergeInit /\ [][MergeNext]_vars

\* ----------------------------------------------------------- cached_request
MaxTicks == 3

\* Time passes, also while a request is out.
Tick ==
    /\ clock < MaxTicks * (TimeToLive \div 2)
    /\ clock' = clock + (TimeToLive \div 2)
    /\ UNCHANGED <<class_vars, call_vars, prev, merge_vars, shelf, price_pc,
                   price_call, price_ret, hist_vars>>

\* cached_request up to the remote request: open the shelf, test the expiry,
\* and either write the new expiry or return what the shelf holds.
CachedRequestBegin ==
    /\ price_pc = "idle"
    /\ \E function \in Functions, ticker \in Tickers :
          LET filepath == FilePath(function, ticker)
              db == shelf[filepath]
          IN /\ price_call' = [function |-> function, ticker |-> ticker,
                               filepath |-> filepath, db |-> db, at |-> clock]
             /\ IF IsExpired(db, clock)
                THEN /\ shelf' = [shelf EXCEPT ![filepath] =
                                     Set(db, "expiry", clock + TimeToLive)]
                     /\ price_pc' = "request"
                     /\ UNCHANGED price_ret
                ELSE /\ price_ret' = Get(db, "result", None)
                     /\ price_pc' = "returned"
                     /\ UNCHANGED shelf
    /\ UNCHANGED <<class_vars, call_vars, prev, merge_vars, clock, hist_vars>>

\* The request is answered: the answer is stored and returned.
RequestSucceeds ==
    /\ price_pc = "request"
    /\ LET db == Set(shelf[price_call.filepath], "result",
                     Response(price_call.function, price_call.ticker, clock))
       IN /\ shelf' = [shelf EXCEPT ![price_call.filepath] = db]
          /\ price_ret' = Get(db, "result", None)
    /\ price_pc' = "returned"
    /\ UNCHANGED <<class_vars, call_vars, prev, merge_vars, clock, price_call,
                   hist_vars>>

\* requests.get or .json() raises: the with statement closes the shelf, which
\* keeps what was written to it.
RequestFails ==
    /\ price_pc = "request"
    /\ price_pc' = "raised"
    /\ price_ret' = None
    /\ UNCHANGED <<class_vars, call_vars, prev, merge_vars, shelf, clock,
                   price_call, hist_vars>>

\* The caller goes on to its next call.
CachedRequestEnd ==
    /\ price_pc \in {"returned", "raised"}
    /\ price_pc' = "idle"
    /\ UNCHANGED <<class_vars, call_vars, prev, merge_vars, shelf, clock,
                   price_call, price_ret, hist_vars>>

CacheInit == ClassFresh /\ CallIdle /\ prev = NoPrev /\ MergeIdle /\ PriceIdle

CacheNext ==
    \/ Tick \/ CachedRequestBegin \/ RequestSucceeds \/ RequestFails
    \/ CachedRequestEnd

CacheSpec == CacheInit /\ [][CacheNext]_vars

\* ------------------------------------------------------ get_historical_price
MaxSeries == 2
MaxDay == walk_back_days + 3

\* date = time.strftime('%Y-%m-%d'); resp = self.cached_request(...);
\* walk_back = 0
HistCall ==
    /\ hist_pc = "idle"
    /\ hist_date' = hist_time
    /\ walk_back' = 0
    /\ hist_pc' = "loop"
    /\ UNCHANGED <<class_vars, call_vars, prev, merge_vars, cache_vars,
                   hist_series, hist_time, hist_ret>>

\* One test of the while condition, and the body or the return it leads to.
HistLoop ==
    /\ hist_pc = "loop"
    /\ IF hist_date \notin hist_series
       THEN IF walk_back > walk_back_days
            THEN /\ hist_ret' = None
                 /\ hist_pc' = "done"
                 /\ UNCHANGED <<hist_date, walk_back>>
            ELSE /\ hist_date' = hist_date - 1
                 /\ walk_back' = walk_back + 1
                 /\ UNCHANGED <<hist_pc, hist_ret>>
       ELSE /\ hist_ret' = SourcePrice(hist_date)
            /\ hist_pc' = "done"
            /\ UNCHANGED <<hist_date, walk_back>>
    /\ UNCHANGED <<class_vars, call_vars, prev, merge_vars, cache_vars,
                   hist_series, hist_time>>

\* Any daily series with few days, asked for the day before its last.
HistInit ==
    /\ ClassFresh /\ CallIdle /\ prev = NoPrev /\ MergeIdle /\ CacheIdle
    /\ hist_series \in {S \in SUBSET (0..MaxDay) : Cardinality(S) <= MaxSeries}
    /\ hist_time = MaxDay - 1
    /\ hist_pc = "idle" /\ hist_date = 0 /\ walk_back = 0 /\ hist_ret = None

HistNext == HistCall \/ HistLoop

HistSpec == HistInit /\ [][HistNext]_vars

\* ================================================================= claims
\* What the claims read off a categorizer's raw result.
AccountOf(r) == IF r.kind = "CategorizerResult" THEN r.account ELSE r
PayeeOf(r) == IF r.kind = "CategorizerResult" THEN r.payee ELSE None
NarrationOf(r) == IF r.kind = "CategorizerResult" THEN r.narration ELSE None
TagsOf(r) == IF r.kind = "CategorizerResult" THEN r.tags ELSE {}
FlagOf(r) == IF r.kind = "CategorizerResult" THEN r.flag ELSE None

\* The resolver is working on, or has finished, a row.
InResolver == pc \in {"loop", "returned", "raised"} /\ row_number >= 1

\* What the categorizers return for the current row.
RowResults == Results(categorizers, Row)
NoneRaises == \A k \in 1..Len(RowResults) : RowResults[k].kind # "raise"
Matches == {k \in 1..Len(RowResults) : RowResults[k] # None}
Winner == CHOOSE k \in Matches : \A j \in Matches : k <= j
WinnerIsValid ==
    /\ AccountOf(RowResults[Winner]).kind = "str"
    /\ AccountOf(RowResults[Winner]).value \in ValidAccounts

\* The signed amount the importer supplies for a row.
Supplied(imp, row) == IF imp.invert_amounts THEN -row.amount ELSE row.amount

\* C1: when exactly one categorizer returns a non-None result, the resolver
\* returns exactly two postings, the primary posting and one on the result's
\* account whose amount is the exact negation of the primary amount in the
\* same currency, and the result's flag is the one the match carried (unset
\* for a bare string); the call returns whenever that account is valid.
C1_ExactlyOneMatch ==
    (InResolver /\ NoneRaises /\ Cardinality(Matches) = 1) =>
        LET r == RowResults[Winner] IN
        /\ (pc = "raised") => ~WinnerIsValid
        /\ (pc = "loop" /\ loop_i > Len(results)) => FALSE
        /\ (pc = "returned") =>
              /\ Len(locals.postings) = 2
              /\ locals.postings[1].account = Imp.account
              /\ locals.postings[2].account = AccountOf(r)
              /\ locals.postings[2].units.number
                     = -locals.postings[1].units.number
              /\ locals.postings[2].units.currency
                     = locals.postings[1].units.currency
              /\ locals.postings[1].units.number
                     + locals.postings[2].units.number = 0
              /\ locals.final_result # None
              /\ locals.final_result.flag = FlagOf(r)

C1_Witness ==
    /\ pc = "returned" /\ NoneRaises /\ Cardinality(Matches) = 1
    /\ Imp.invert_amounts
    /\ Len(categorizers) >= 2
    /\ locals.final_result.flag = Str("?")

\* C2: when two or more categorizers return a non-None result, the returned
\* result's flag is the warning flag even if the first match carried a flag,
\* there are exactly two postings, and the second posting's account and the
\* result's payee, narration and tags are those of the first match.
C2_AmbiguousIsFlagged ==
    (pc = "returned" /\ NoneRaises /\ Cardinality(Matches) >= 2) =>
        LET r == RowResults[Winner] IN
        /\ locals.final_result # None
        /\ locals.final_result.flag = FLAG_WARNING
        /\ Len(locals.postings) = 2
        /\ locals.postings[2].account = AccountOf(r)
        /\ locals.final_result.account = AccountOf(r)
        /\ locals.final_result.payee = PayeeOf(r)
        /\ locals.final_result.narration = NarrationOf(r)
        /\ locals.final_result.tags = TagsOf(r)

C2_Witness ==
    /\ pc = "returned" /\ NoneRaises /\ Cardinality(Matches) >= 2
    /\ FlagOf(RowResults[Winner]) = Str("?")
    /\ Winner > 1

\* C3: when no categorizer returns a non-None result (the list may be
\* empty), the resolver returns, with exactly one posting, on the primary
\* account, and None as the result.
C3_NoMatch ==
    (InResolver /\ NoneRaises /\ Matches = {}) =>
        /\ pc # "raised"
        /\ (pc = "returned") =>
              /\ Len(locals.postings) = 1
              /\ locals.postings[1].account = Imp.account
              /\ locals.final_result = None

C3_Witness ==
    /\ pc = "returned" /\ NoneRaises /\ Matches = {}
    /\ Len(categorizers) >= 2

\* C4: in every state of the resolver and in everything it returns, the
\* first posting is the primary posting: the importer's account and exactly
\* the signed amount supplied for the row.
C4_PrimaryPostingFirst ==
    /\ (pc \in {"loop", "returned"}) =>
          /\ Len(locals.postings) >= 1
          /\ locals.postings[1].account = Imp.account
          /\ locals.postings[1].units.number = Supplied(Imp, Row)
          /\ locals.postings[1].units.currency = Imp.currency
    /\ (pc = "rows") =>
          \A k \in 1..Len(transactions) :
              /\ transactions[k].postings[1].account = Imp.account
              /\ transactions[k].postings[1].units.number
                     = Supplied(Imp, file[k])

C4_Witness ==
    /\ pc = "returned" /\ Imp.invert_amounts
    /\ Len(locals.postings) = 2
    /\ locals.postings[1].units.number = 450

\* C5: when the first non-None result has an invalid account, the resolver
\* raises as soon as the loop reaches it and returns nothing; no posting on
\* an invalid account is ever returned.
C5_InvalidWinnerFails ==
    /\ (InResolver /\ NoneRaises /\ Matches # {} /\ ~WinnerIsValid
        /\ loop_i > Winner) =>
          /\ pc = "raised"
          /\ error \in {"AssertionError", "TypeError"}
          /\ (AccountOf(RowResults[Winner]).kind = "str")
                => error = "AssertionError"
          /\ locals = NoLocals
          /\ transactions = <<>>
    /\ (pc = "returned") =>
          \A k \in 1..Len(locals.postings) :
              /\ locals.postings[k].account.kind = "str"
              /\ locals.postings[k].account.value \in ValidAccounts
    /\ \A k \in 1..Len(transactions) :
          \A j \in 1..Len(transactions[k].postings) :
              transactions[k].postings[j].account.value \in ValidAccounts

C5_Witness ==
    /\ pc = "raised" /\ error = "AssertionError"
    /\ row_number = 2
    /\ NoneRaises /\ Matches # {} /\ ~WinnerIsValid
    /\ Winner > 1

\* The scalar fields of a CategorizerResult.
ScalarFields == {"account", "payee", "narration", "flag"}

\* Some scalar field is set on both sides, to unequal values.
MergeConflict ==
    \E f \in ScalarFields :
        /\ merge_left[f] # None /\ merge_right[f] # None
        /\ merge_left[f] # merge_right[f]

MergeCalled == merge_out # None

\* C6: merging two results with equal non-null accounts (and no conflict in
\* another scalar field) returns a result, merging that result with the right
\* side again returns the same, and merging a result with itself returns it.
C6_MergeEqualAccounts ==
    (/\ MergeCalled
     /\ merge_left.account # None
     /\ merge_left.account = merge_right.account
     /\ ~MergeConflict) =>
        /\ merge_out.outcome = "return"
        /\ merge_categorizer_results(merge_out.value, merge_right) = merge_out
        /\ (merge_left = merge_right) => merge_out.value = merge_left

\* C7: a merge with a scalar field set to unequal values on both sides
\* raises the "Cannot merge" AssertionError; any other merge returns a result
\* whose every scalar field is the value set on either side.
C7_ConflictRaisesAssertion ==
    MergeCalled =>
        IF MergeConflict
        THEN /\ merge_out.outcome = "raise"
             /\ merge_out.type = "AssertionError"
        ELSE /\ merge_out.outcome = "return"
             /\ \A f \in ScalarFields :
                    merge_out.value[f] =
                        IF merge_left[f] # None THEN merge_left[f]
                        ELSE merge_right[f]

\* C8: two resolutions of the same row by the same importer (so the same
\* primary account, amount and constructor arguments) return the same
\* postings and result, whatever was constructed or resolved in between.
C8_Deterministic ==
    (pc = "returned" /\ prev.self = self /\ prev.row = Row) =>
        /\ prev.postings = locals.postings
        /\ prev.final_result = locals.final_result

\* C9: every transaction extract has built is the one get_transaction gives
\* for that row on its own, so equal rows give transactions that differ in
\* the line number only, whatever rows come before or after; an error is the
\* one the row raises on its own; and no step of the extraction changes the
\* categorizers, the tags or the instances.
C9_EachRowAlone ==
    /\ (pc = "rows") =>
          /\ Len(transactions) = row_number
          /\ \A k \in 1..Len(transactions) :
                get_transaction(Imp, categorizers, tags, file[k], "file.csv", k)
                    = [outcome |-> "return", txn |-> transactions[k]]
          /\ \A j, k \in 1..Len(transactions) :
                (file[j] = file[k]) =>
                    [transactions[j] EXCEPT !.meta.lineno = k] = transactions[k]
    /\ (pc = "returned") =>
          get_categorized_postings(Imp, categorizers, Row)
              = [outcome |-> "return", postings |-> locals.postings,
                 final_result |-> locals.final_result]
    /\ (pc = "raised") =>
          get_categorized_postings(Imp, categorizers, Row)
              = [outcome |-> "raise", type |-> error]

C9_ConfigurationKept == UNCHANGED class_vars

\* C9: records are resolved independently (each row's transaction is the one
\* the row gives alone, in any order) and resolving leaves the importer's
\* categorizers, tags, account and currency unchanged.
C9_RecordsIndependent == [](C9_EachRowAlone) /\ [][C9_ConfigurationKept]_vars

C9_Witness ==
    /\ pc = "rows" /\ row_number = 2
    /\ file[1] # file[2]
    /\ Len(transactions[1].postings) = 2
    /\ transactions[1].tags # transactions[2].tags
    /\ transactions[1].flag # transactions[2].flag

\* The categorizers list with the bare string that number k returns replaced
\* by CategorizerResult(account=<that string>).
SubstituteAt(cats, k) ==
    [cats EXCEPT ![k].out = CategorizerResultOf(cats[k].out)]

\* C10: replacing any categorizer that returns a bare string s by one that
\* returns CategorizerResult(account=s) changes nothing: the same postings
\* and result, the same error, the same transactions.
C10_BareStringIsAccountOnly ==
    \A k \in 1..Len(categorizers) :
        (categorizers[k].out.kind = "str") =>
            LET alt == SubstituteAt(categorizers, k) IN
            /\ (pc = "returned") =>
                  get_categorized_postings(Imp, alt, Row)
                      = [outcome |-> "return", postings |-> locals.postings,
                         final_result |-> locals.final_result]
            /\ (pc = "raised") =>
                  get_categorized_postings(Imp, alt, Row)
                      = [outcome |-> "raise", type |-> error]
            /\ (pc = "rows") =>
                  \A j \in 1..Len(transactions) :
                      get_transaction(Imp, alt, tags, file[j], "file.csv", j)
                          = [outcome |-> "return", txn |-> transactions[j]]

C10_Witness ==
    /\ pc = "rows" /\ row_number = 1
    /\ Len(categorizers) >= 2
    /\ NoneRaises /\ Matches # {}
    /\ RowResults[Winner].kind = "str"
    /\ Cardinality(Matches) >= 2
    /\ Len(transactions[1].postings) = 2

\* The resolver has accepted a first non-None result for the current row.
Classified == pc \in {"loop", "returned"} /\ locals.final_result # None

C11_ClassifiedStays ==
    Classified =>
        /\ pc' \in {"loop", "returned", "rows"}
        /\ locals'.final_result # None
        /\ Len(locals'.postings) = 2
        /\ locals'.postings = locals.postings
        /\ locals'.final_result.account = locals.final_result.account
        /\ locals'.final_result.payee = locals.final_result.payee
        /\ locals'.final_result.narration = locals.final_result.narration
        /\ locals'.final_result.tags = locals.final_result.tags
        /\ \/ locals'.final_result.flag = locals.final_result.flag
           \/ locals'.final_result.flag = FLAG_WARNING

\* C11: per row the resolver goes once from unclassified to classified: from
\* the first accepted result on there are two postings, the result's account,
\* payee, narration and tags stay as they are, its flag changes only to the
\* warning flag, and the evaluation never raises or loses the result.
C11_OneWayTransition ==
    /\ [](Classified => Len(locals.postings) = 2)
    /\ [][C11_ClassifiedStays]_vars

C11_Witness ==
    /\ pc = "returned"
    /\ locals.final_result # None
    /\ locals.final_result.flag = FLAG_WARNING
    /\ NoneRaises /\ Matches # {}
    /\ FlagOf(RowResults[Winner]) = Str("?")
    /\ Winner = 1 /\ RowResults[2] = None /\ RowResults[3] # None

\* The non-None results the categorizers give for row number k of the file.
MatchesOf(k) ==
    {j \in 1..Len(categorizers) : Call(categorizers[j], file[k]) # None}

FirstMatchOf(k) ==
    Call(categorizers[CHOOSE j \in MatchesOf(k) : \A i \in MatchesOf(k) : j <= i],
         file[k])

\* C12: no row is dropped and neither an unmatched nor an ambiguous row makes
\* get_transaction fail: an unmatched row gives a transaction with one posting
\* and the warning flag; a row with two postings gives the result's flag when
\* it has a non-empty one (the warning flag when several categorizers matched)
\* and the okay flag otherwise.
C12_UnclassifiedAndAmbiguousKept ==
    /\ (InResolver /\ NoneRaises /\ Matches = {}) => pc # "raised"
    /\ (InResolver /\ NoneRaises /\ Cardinality(Matches) >= 2 /\ WinnerIsValid)
          => pc # "raised"
    /\ (pc = "rows") => Len(transactions) = row_number
    /\ (pc = "done") => Len(transactions) = Len(file)
    /\ (pc = "rows") =>
          \A k \in 1..Len(transactions) :
              LET t == transactions[k]
                  n == Cardinality(MatchesOf(k))
              IN /\ (n = 0) => (Len(t.postings) = 1 /\ t.flag = FLAG_WARNING)
                 /\ (n >= 2) => (Len(t.postings) = 2 /\ t.flag = FLAG_WARNING)
                 /\ (n = 1) =>
                       /\ Len(t.postings) = 2
                       /\ t.flag = IF FlagOf(FirstMatchOf(k)) \notin {None, Str("")}
                                   THEN FlagOf(FirstMatchOf(k)) ELSE FLAG_OKAY
                 /\ (Len(t.postings) = 2) => t.flag # None

C12_Witness ==
    /\ pc = "rows" /\ row_number = 2
    /\ Cardinality(MatchesOf(1)) = 0
    /\ Cardinality(MatchesOf(2)) >= 2
    /\ transactions[1].flag = FLAG_WARNING
    /\ Len(transactions[2].postings) = 2

\* Some categorizer raises on row number k of the file.
RaisesOn(k) ==
    \E j \in 1..Len(categorizers) :
        Call(categorizers[j], file[k]).kind = "raise"

\* C13: an error raised by any categorizer for a row, wherever it stands in
\* the list and whatever matched before it, leaves the resolver and extract:
\* the call ends with that error and returns no postings and no transactions.
C13_CategorizerErrorPropagates ==
    /\ (row_number >= 1 /\ RaisesOn(row_number)) =>
          /\ pc = "raised"
          /\ error = "AssertionError"
          /\ locals = NoLocals
          /\ transactions = <<>>
    /\ (pc = "done") => \A k \in 1..Len(file) : ~RaisesOn(k)

C13_Witness ==
    /\ pc = "raised" /\ row_number = 1
    /\ Len(categorizers) = 3
    /\ RowResults[1] # None /\ RowResults[1].kind # "raise"
    /\ RowResults[2] # None /\ RowResults[2].kind # "raise"
    /\ RowResults[3].kind = "raise"
    /\ IsValidAccount(AccountOf(RowResults[1]))

\* What the claims read off a cached_request call.
CallStarts == price_pc = "idle" /\ price_pc' # "idle"
Fetched == price_pc = "request" /\ price_pc' = "returned"
EntryOf(sh, function, ticker) == sh[FilePath(function, ticker)]
NoEntry(db) == "expiry" \notin DOMAIN db

\* C14: a call makes a remote request exactly when the entry of its
\* (function, ticker) does not exist or its stored expiry is earlier than now;
\* otherwise it returns the stored result, makes no request and writes
\* nothing. After a fetch the entry holds the fetched response and the time
\* the fetch was started plus 24 hours, whatever it held before, and no other
\* entry has changed.
C14_ReadOrFetch ==
    CallStarts =>
        LET db == EntryOf(shelf, price_call'.function, price_call'.ticker)
            stale == NoEntry(db) \/ db["expiry"] < clock
        IN /\ (price_pc' = "request") <=> stale
           /\ ~stale => /\ price_pc' = "returned"
                        /\ price_ret' = Get(db, "result", None)
                        /\ shelf' = shelf

C14_FetchWrites ==
    Fetched =>
        LET response == Response(price_call.function, price_call.ticker, clock)
        IN /\ price_ret' = response
           /\ shelf'[price_call.filepath] =
                  [k \in {"expiry", "result"} |->
                      IF k = "expiry" THEN price_call.at + (24 * 3600)
                      ELSE response]
           /\ \A p \in FilePaths \ {price_call.filepath} : shelf'[p] = shelf[p]

C14_ReadIfFreshElseFetchAndWrite ==
    [][C14_ReadOrFetch /\ C14_FetchWrites]_vars

\* A fetch has replaced an entry that had expired, and a later call has been
\* served from it without a request.
C14_Witness ==
    /\ price_pc = "returned"
    /\ price_call.db = shelf[price_call.filepath]
    /\ price_ret # None
    /\ price_ret.fetched > 0
    /\ price_ret.fetched < price_call.at
    /\ price_call.db["expiry"] >= price_call.at

\* C15: the value a call returns was fetched for the call's own
\* (function, ticker), and the entry a call reads or writes is the entry of no
\* other pair.
C15_KeyedByFunctionAndTicker ==
    /\ (price_pc = "returned" /\ price_ret # None) =>
           /\ price_ret.function = price_call.function
           /\ price_ret.ticker = price_call.ticker
    /\ price_pc # "idle" =>
           \A f \in Functions, t \in Tickers :
               FilePath(f, t) = price_call.filepath =>
                   f = price_call.function /\ t = price_call.ticker

\* C18: a failed request leaves the entry as the call found it, and every
\* value a call returns is a response fetched at most 24 hours before.
C18_FailedFetchLeavesEntry ==
    /\ price_pc = "raised" => shelf[price_call.filepath] = price_call.db
    /\ price_pc = "returned" =>
           /\ price_ret # None
           /\ price_ret.fetched + (24 * 3600) >= price_call.at

\* What the claims read off a get_historical_price call.
Candidates ==
    {d \in hist_series : d <= hist_time /\ hist_time - d <= walk_back_days}
Latest(S) == CHOOSE d \in S : \A e \in S : e <= d

\* C19: the call returns the close of the latest day of the series that is
\* not after the day asked for and at most walk_back_days before it, and None
\* exactly when there is no such day.
C19_WalkBackWithinDays ==
    hist_pc = "done" =>
        IF Candidates = {} THEN hist_ret = None
        ELSE hist_ret = SourcePrice(Latest(Candidates))

\* C16: what extract returns is sorted by date, holds exactly the transaction
\* of every row of the file, once each, and keeps rows of equal date in the
\* order of the file.
C16_SortedStablePermutation ==
    pc = "done" =>
        /\ Len(transactions) = Len(file)
        /\ \A i, j \in 1..Len(transactions) :
              i < j => /\ transactions[i].date <= transactions[j].date
                       /\ transactions[i].date = transactions[j].date =>
                              transactions[i].meta.lineno < transactions[j].meta.lineno
        /\ {transactions[i].meta.lineno : i \in 1..Len(transactions)} = 1..Len(file)
        /\ \A i \in 1..Len(transactions) :
              LET n == transactions[i].meta.lineno
              IN transactions[i] =
                     get_transaction(Imp, categorizers, tags, file[n], "file.csv", n).txn

\* A file whose second row is dated before its first comes back reordered.
C16_Witness ==
    /\ pc = "done"
    /\ Len(file) = 2
    /\ file[1].date > file[2].date
    /\ transactions[1].meta.lineno = 2
    /\ transactions[2].meta.lineno = 1

\* C17: every instance reads the categorizers and tags that were passed to
\* its own constructor, whatever else has been constructed, and resolves its
\* rows with them.
C17_InstancesOwnConfiguration ==
    /\ \A k \in 1..Len(importers) :
          /\ categorizers = importers[k].passed
          /\ tags = importers[k].passed_tags
    /\ pc = "returned" =>
          LET own == get_categorized_postings(Imp, Imp.passed, Row)
          IN /\ own.outcome = "return"
             /\ own.postings = locals.postings
             /\ own.final_result = locals.final_result

\* C20: on the results of the same categorizers the Ally importer's
\* get_postings returns what get_categorized_postings returns: the same final
\* result, flag included, and the same postings (the same but for the sign of
\* the amounts when the importer inverts amounts, which the Ally importer
\* cannot); and it raises the same error when get_categorized_postings raises.
C20_AllySameAsMixin ==
    /\ pc = "returned" =>
          LET ally == get_postings(Imp, Row, results)
          IN /\ ally.outcome = "return"
             /\ ally.final_result = locals.final_result
             /\ Len(ally.postings) = Len(locals.postings)
             /\ \A k \in 1..Len(locals.postings) :
                   ally.postings[k] =
                       [locals.postings[k] EXCEPT
                           !.units = IF Imp.invert_amounts THEN Neg(@) ELSE @]
    /\ (pc = "raised" /\ results # <<>>) =>
          LET ally == get_postings(Imp, Row, results)
          IN ally.outcome = "raise" /\ ally.type = error

\* Three categorizers have matched: the mixin stopped at the second, the Ally
\* loop went on to the third.
C20_Witness ==
    /\ pc = "returned"
    /\ ~Imp.invert_amounts
    /\ Len(results) = 3
    /\ \A k \in 1..3 : results[k] # None
    /\ results[1].kind = "CategorizerResult"
    /\ results[1].flag # FLAG_WARNING
    /\ get_postings(Imp, Row, results).final_result.flag = FLAG_WARNING

\* A match after the winner whose account no posting could carry.
LaterInvalidMatch ==
    \E k \in Matches :
        /\ k > Winner
        /\ \/ AccountOf(RowResults[k]).kind # "str"
           \/ AccountOf(RowResults[k]).value \notin ValidAccounts

\* C21: when a valid winner is followed by other non-None results, whatever
\* they are, the call does not raise and returns what the winner alone would
\* give but for the warning flag: two postings, the second on the winner's
\* account, and the winner's account, payee, narration and tags.
C21_LaterMatchOnlyFlags ==
    (InResolver /\ NoneRaises /\ Cardinality(Matches) >= 2 /\ WinnerIsValid) =>
        /\ pc # "raised"
        /\ pc = "returned" =>
              LET alone == get_categorized_postings(Imp, <<categorizers[Winner]>>, Row)
                  r == RowResults[Winner]
              IN /\ alone.outcome = "return"
                 /\ locals.postings = alone.postings
                 /\ locals.final_result =
                        [alone.final_result EXCEPT !.flag = FLAG_WARNING]
                 /\ Len(locals.postings) = 2
                 /\ locals.postings[2].account = AccountOf(r)
                 /\ locals.final_result =
                        CategorizerResult(AccountOf(r), PayeeOf(r), NarrationOf(r),
                                          TagsOf(r), FLAG_WARNING)

\* The winner is followed by a match with an invalid account and the call has
\* returned.
C21_Witness ==
    /\ pc = "returned" /\ NoneRaises /\ Cardinality(Matches) >= 2
    /\ WinnerIsValid
    /\ LaterInvalidMatch
    /\ locals.final_result.flag = FLAG_WARNING

\* C22: the transaction of the row just resolved has the winner's narration
\* when that is a non-empty string and the row's description otherwise, the
\* winner's payee (None when nothing matched), and the importer's tags joined
\* with the winner's; when nothing matched it has the description, no payee,
\* the importer's tags alone and the primary posting alone.
C22_TransactionFields ==
    (pc = "rows" /\ row_number >= 1 /\ NoneRaises) =>
        LET txn == transactions[row_number]
            description == Text(Row.description)
        IN IF Matches = {}
           THEN /\ txn.payee = None
                /\ txn.narration = description
                /\ txn.tags = Imp.passed_tags
                /\ Len(txn.postings) = 1
                /\ txn.postings[1].account = Imp.account
           ELSE LET r == RowResults[Winner]
                IN /\ txn.payee = PayeeOf(r)
                   /\ txn.narration =
                          IF NarrationOf(r) \notin {None, Str("")}
                          THEN NarrationOf(r) ELSE description
                   /\ txn.tags = Imp.passed_tags \cup TagsOf(r)

\* A transaction carries the winner's narration, payee and tags beside the
\* importer's own tag.
C22_Witness ==
    /\ pc = "rows" /\ row_number >= 1 /\ NoneRaises /\ Matches # {}
    /\ transactions[row_number].narration = Str("shopping trip")
    /\ transactions[row_number].payee = Str("Shop")
    /\ transactions[row_number].tags = {"imported", "errands"}

====
